---- MODULE Spec2Model ----
(***************************************************************************)
(* Model of the IC4 spin-bike telemetry decoder (SpinMain.py / main.py):   *)
(* parse_buffer, calculate_stats and diff_for_sample over the module's     *)
(* global state, driven by the notification handler of SpinMain.py.        *)
(*                                                                         *)
(* Numbers.  Python floats are modelled as exact rationals <<n, d>> with   *)
(* d > 0 and gcd(n, d) = 1.  Byte buffers are sequences of 0..255 and the  *)
(* struct little-endian decoding is computed from the bytes.               *)
(***************************************************************************)
EXTENDS Integers, Sequences, FiniteSets, TLC

VARIABLES previousSample, currentSample, hasWheel, hasCrank, startDistance,
          bluetoothStats, data, sensor_data, screen, frames, diff_call,
          stats_call, program, session, running, main_pc, handler_pc

vars == <<previousSample, currentSample, hasWheel, hasCrank, startDistance,
          bluetoothStats, data, sensor_data, screen, frames, diff_call,
          stats_call, program, session, running, main_pc, handler_pc>>

\* the script and its connection, and the two coroutines of main()
tasks == <<program, session, running, main_pc, handler_pc>>

engine == <<previousSample, currentSample, hasWheel, hasCrank, startDistance,
            bluetoothStats>>

(* ------------------------------ bounds -------------------------------- *)

\* number of buffers the transport delivers in one session
MaxFrames == 3

\* largest small modulus tried on diff_for_sample (besides the two real ones)
MaxModulus == 6

(* ------------------------- exact rationals ---------------------------- *)

RECURSIVE GCD(_, _)
GCD(a, b) == IF b = 0 THEN a ELSE GCD(b, a % b)

Abs(a) == IF a < 0 THEN -a ELSE a

\* the value that stands for a raised ZeroDivisionError: no rational has a
\* zero denominator, and every operation on it yields it again
ZeroDivisionError == <<0, 0>>

Rat(n, d) ==
    IF d = 0 THEN ZeroDivisionError
    ELSE LET g == GCD(Abs(n), Abs(d))
             s == IF d < 0 THEN -1 ELSE 1
         IN  <<s * (n \div g), s * (d \div g)>>

Whole(n) == <<n, 1>>

LCM(a, b) == (a \div GCD(a, b)) * b

RAdd(x, y) ==
    IF x[2] = 0 \/ y[2] = 0 THEN ZeroDivisionError
    ELSE LET l == LCM(x[2], y[2])
         IN  Rat(x[1] * (l \div x[2]) + y[1] * (l \div y[2]), l)

RNeg(x) == <<-x[1], x[2]>>

RSub(x, y) == RAdd(x, RNeg(y))

RMul(x, y) ==
    IF x[2] = 0 \/ y[2] = 0 THEN ZeroDivisionError
    ELSE LET g1 == GCD(Abs(x[1]), y[2])
             g2 == GCD(Abs(y[1]), x[2])
         IN  Rat((x[1] \div g1) * (y[1] \div g2),
                 (x[2] \div g2) * (y[2] \div g1))

\* Python's true division: dividing by zero raises
RDiv(x, y) == RMul(x, Rat(y[2], y[1]))

RLeq(x, y) ==
    LET l == LCM(x[2], y[2])
    IN  x[1] * (l \div x[2]) <= y[1] * (l \div y[2])

RLess(x, y) == RLeq(x, y) /\ x # y

Zero == Whole(0)

(* ------------------------ module-level globals ------------------------ *)

\* Python's None; every optional value is a record, so that it compares
None == [none |-> TRUE]

\* wheelSize = 2.105
wheelSize == <<421, 200>>

\* updateRatio = 0.1
updateRatio == <<1, 10>>

UINT16_MAX == 65535

\* 4294967295, written as a product: it is only evaluated on a wheel wrap
UINT32_MAX == 65535 * 65537

(* --------------------------- diff_for_sample -------------------------- *)

diff_for_sample_strict(current, previous, max_value) ==
    IF current > previous
        THEN current - previous
        ELSE (max_value - previous) + current

diff_for_sample(current, previous, max_value) ==
    IF current >= previous
        THEN current - previous
        ELSE (max_value - previous) + current

(* --------------------------- calculate_stats -------------------------- *)

\* Python truthiness of the values tested: None is false, a non-empty dict
\* (a sample has four keys, a stats record three) is true.
Truthy(x) == x # None

\* the test "if not previousSample": no sample was decoded before this one
first_sample_late(g) == ~Truthy(g.bluetoothStats)

first_sample(g) == ~Truthy(g.previousSample)

\* startDistance = currentSample['wheel'] * wheelSize / 1000 / 1000
start_distance(cur) ==
    RDiv(RDiv(RMul(Whole(cur.wheel), wheelSize), Whole(1000)), Whole(1000))

\* the locals computed without the zero checks of the time differences
instantaneous_unguarded(g) ==
    LET cur  == g.currentSample
        prev == g.previousSample
        wheel_time_diff ==
            RDiv(Whole(diff_for_sample(cur.wheelTime, prev.wheelTime,
                                       UINT16_MAX)), Whole(1024))
        wheel_diff == diff_for_sample(cur.wheel, prev.wheel, UINT32_MAX)
        sample_distance ==
            RDiv(RMul(Whole(wheel_diff), wheelSize), Whole(1000))
        wheel_speed ==
            RMul(RDiv(sample_distance, wheel_time_diff), <<18, 5>>)
        wheel_distance ==
            RSub(RDiv(RDiv(RMul(Whole(cur.wheel), wheelSize), Whole(1000)),
                      Whole(1000)),
                 g.startDistance)
        crank_time_diff ==
            RDiv(Whole(diff_for_sample(cur.crankTime, prev.crankTime,
                                       UINT16_MAX)), Whole(1024))
        crank_diff == diff_for_sample(cur.crank, prev.crank, UINT16_MAX)
        crank_cadence ==
            RDiv(RMul(Whole(60), Whole(crank_diff)), crank_time_diff)
    IN  [cadence  |-> IF g.hasCrank THEN crank_cadence ELSE Zero,
         distance |-> IF g.hasWheel THEN wheel_distance ELSE Zero,
         speed    |-> IF g.hasWheel THEN wheel_speed ELSE Zero]

\* the locals distance, cadence and speed computed from the two samples;
\* g is the record of the globals
instantaneous(g) ==
    LET cur  == g.currentSample
        prev == g.previousSample
        wheel_time_diff ==
            RDiv(Whole(diff_for_sample(cur.wheelTime, prev.wheelTime,
                                       UINT16_MAX)), Whole(1024))
        wheel_diff == diff_for_sample(cur.wheel, prev.wheel, UINT32_MAX)
        sample_distance ==
            RDiv(RMul(Whole(wheel_diff), wheelSize), Whole(1000))
        wheel_speed ==
            IF wheel_time_diff = Zero
            THEN Zero
            ELSE RMul(RDiv(sample_distance, wheel_time_diff), <<18, 5>>)
        wheel_distance ==
            RSub(RDiv(RDiv(RMul(Whole(cur.wheel), wheelSize), Whole(1000)),
                      Whole(1000)),
                 g.startDistance)
        crank_time_diff ==
            RDiv(Whole(diff_for_sample(cur.crankTime, prev.crankTime,
                                       UINT16_MAX)), Whole(1024))
        crank_diff == diff_for_sample(cur.crank, prev.crank, UINT16_MAX)
        crank_cadence ==
            IF crank_time_diff = Zero
            THEN Zero
            ELSE RDiv(RMul(Whole(60), Whole(crank_diff)), crank_time_diff)
    IN  [cadence  |-> IF g.hasCrank THEN crank_cadence ELSE Zero,
         distance |-> IF g.hasWheel THEN wheel_distance ELSE Zero,
         speed    |-> IF g.hasWheel THEN wheel_speed ELSE Zero]

\* the new bluetoothStats from the old one and the instantaneous values
smoothed_swapped(stats, inst) ==
    IF Truthy(stats)
    THEN [cadence  |-> RAdd(RMul(stats.cadence, updateRatio),
                            RMul(inst.cadence, RSub(Whole(1), updateRatio))),
          distance |-> inst.distance,
          speed    |-> RAdd(RMul(stats.speed, updateRatio),
                            RMul(inst.speed, RSub(Whole(1), updateRatio)))]
    ELSE [cadence  |-> inst.cadence,
          distance |-> inst.distance,
          speed    |-> inst.speed]

\* the distance smoothed like the cadence and the speed
smoothed_distance_too(stats, inst) ==
    IF Truthy(stats)
    THEN [cadence  |-> RAdd(RMul(stats.cadence, RSub(Whole(1), updateRatio)),
                            RMul(inst.cadence, updateRatio)),
          distance |-> RAdd(RMul(stats.distance, RSub(Whole(1), updateRatio)),
                            RMul(inst.distance, updateRatio)),
          speed    |-> RAdd(RMul(stats.speed, RSub(Whole(1), updateRatio)),
                            RMul(inst.speed, updateRatio))]
    ELSE [cadence  |-> inst.cadence,
          distance |-> inst.distance,
          speed    |-> inst.speed]

smoothed(stats, inst) ==
    IF Truthy(stats)
    THEN [cadence  |-> RAdd(RMul(stats.cadence, RSub(Whole(1), updateRatio)),
                            RMul(inst.cadence, updateRatio)),
          distance |-> inst.distance,
          speed    |-> RAdd(RMul(stats.speed, RSub(Whole(1), updateRatio)),
                            RMul(inst.speed, updateRatio))]
    ELSE [cadence  |-> inst.cadence,
          distance |-> inst.distance,
          speed    |-> inst.speed]

\* the first sample reported as a snapshot of zeros
calculate_stats_zero_first(g) ==
    IF first_sample(g)
    THEN [g EXCEPT !.startDistance = start_distance(g.currentSample),
                   !.bluetoothStats =
                     [cadence |-> Zero, distance |-> Zero, speed |-> Zero]]
    ELSE [g EXCEPT !.bluetoothStats =
            smoothed(g.bluetoothStats, instantaneous(g))]

\* g is the record of the globals; the result is g with startDistance and
\* bluetoothStats as calculate_stats leaves them
calculate_stats(g) ==
    IF first_sample(g)
    THEN [g EXCEPT !.startDistance = start_distance(g.currentSample)]
    ELSE [g EXCEPT !.bluetoothStats =
            smoothed(g.bluetoothStats, instantaneous(g))]

(* ------------------------------ struct -------------------------------- *)

RECURSIVE LittleEndian(_, _, _)
\* value of the size bytes of buffer that start at 0-based offset
LittleEndian(buffer, offset, size) ==
    IF size = 0 THEN 0
    ELSE buffer[offset + 1] + 256 * LittleEndian(buffer, offset + 1, size - 1)

\* struct.unpack_from raises struct.error (as CPython's struct does) when
\* the buffer ends before the field does
struct_error(size, buffer, offset) == Len(buffer) < offset + size

unpack_from(size, buffer, offset) == LittleEndian(buffer, offset, size)

(* ---------------------------- parse_buffer ---------------------------- *)

\* the guard "if len(buffer) < 9"
too_short_by_one(buffer) == Len(buffer) < 8

too_short(buffer) == Len(buffer) < 9

\* the globals after "except struct.error": the handler prints and returns,
\* g is what the try block had assigned before the error
except_struct_error_reset(g) == [g EXCEPT !.currentSample = None]

except_struct_error(g) == g

\* previousSample assigned after currentSample instead of before it
parse_buffer_shift_late(buffer, g) ==
    IF too_short(buffer)
    THEN [g |-> g, ret |-> None]
    ELSE
      LET flags == buffer[1]
          g1 == [g EXCEPT !.hasWheel = (flags = 1 \/ flags = 3),
                          !.hasCrank = (flags = 2 \/ flags = 3)]
      IN  IF \/ struct_error(4, buffer, 1)
             \/ struct_error(2, buffer, 5)
             \/ struct_error(2, buffer, 7)
             \/ struct_error(2, buffer, 9)
          THEN [g |-> except_struct_error(g1), ret |-> None]
          ELSE
            LET g2 == [g1 EXCEPT !.currentSample =
                         [wheel     |-> unpack_from(4, buffer, 1),
                          wheelTime |-> unpack_from(2, buffer, 5),
                          crank     |-> unpack_from(2, buffer, 7),
                          crankTime |-> unpack_from(2, buffer, 9)]]
                g3 == calculate_stats(
                        [g2 EXCEPT !.previousSample = g2.currentSample])
            IN  [g |-> g3, ret |-> g3.bluetoothStats]

\* The result is [g |-> the globals after the call, ret |-> the value
\* returned].  The dict display evaluates its four unpack_from calls in
\* order after previousSample has been assigned; a struct.error leaves
\* currentSample unassigned and is caught by the handler, which returns None.
parse_buffer(buffer, g) ==
    IF too_short(buffer)
    THEN [g |-> g, ret |-> None]
    ELSE
      LET flags == buffer[1]
          g1 == [g EXCEPT !.hasWheel = (flags = 1 \/ flags = 3),
                          !.hasCrank = (flags = 2 \/ flags = 3),
                          !.previousSample = g.currentSample]
      IN  IF \/ struct_error(4, buffer, 1)
             \/ struct_error(2, buffer, 5)
             \/ struct_error(2, buffer, 7)
             \/ struct_error(2, buffer, 9)
          THEN [g |-> except_struct_error(g1), ret |-> None]
          ELSE
            LET g2 == [g1 EXCEPT !.currentSample =
                         [wheel     |-> unpack_from(4, buffer, 1),
                          wheelTime |-> unpack_from(2, buffer, 5),
                          crank     |-> unpack_from(2, buffer, 7),
                          crankTime |-> unpack_from(2, buffer, 9)]]
                g3 == calculate_stats(g2)
            IN  [g |-> g3, ret |-> g3.bluetoothStats]

(* ------------------------------ display ------------------------------- *)

\* what the panel shows after write_metric: LCD.fill, two write_text, show
write_metric(title, metric) == [title |-> title, metric |-> metric]

\* keys is the set of buttons held down (value() == 0).  The key3 branch
\* draws into the frame buffer without LCD.show(), so the panel keeps what
\* the last write_metric pushed.
metric_on_screen(stats, keys) ==
    LET s0 == write_metric("Cadence", stats.cadence)
        s1 == IF 0 \in keys THEN write_metric("Cadence", stats.cadence) ELSE s0
        s2 == IF 1 \in keys THEN write_metric("Speed", stats.speed) ELSE s1
        s3 == IF 2 \in keys THEN write_metric("Distance", stats.distance) ELSE s2
    IN  s3

\* button states tried at each display update
KeyStates == {{}, {0, 1}, {2, 3}}

(* ----------------------------- transport ------------------------------ *)

\* the sensor's counters when the session starts; the crank timer is one
\* event short of wrapping
StartCounters ==
    [wheel |-> 1000, wheelTime |-> 0, crank |-> 7, crankTime |-> 65024]

\* <<revolutions, ticks>> added by the events between two frames
WheelEvents == {<<0, 0>>, <<10, 1024>>}

CrankEvents == {<<0, 0>>, <<3, 512>>}

\* flag bytes sent: the four defined combinations, and two with a reserved
\* bit set
FlagBytes == {0, 1, 2, 3, 4, 7}

\* the counters of the next frame: the timers wrap at 65536; the revolution
\* counts only grow and stay far below their wrap (a wheel-count wrap gives
\* a delta near 2^32, outside the integers the checker computes with)
Counters(base) ==
    { [wheel     |-> base.wheel + w[1],
       wheelTime |-> (base.wheelTime + w[2]) % 65536,
       crank     |-> (base.crank + c[1]) % 65536,
       crankTime |-> (base.crankTime + c[2]) % 65536] :
      w \in WheelEvents, c \in CrankEvents }

\* n bytes of v, least significant first (struct '<I', '<H')
Bytes(v, n) == [i \in 1..n |-> (v \div (256 ^ (i - 1))) % 256]

Frame(flags, s) ==
    <<flags>> \o Bytes(s.wheel, 4) \o Bytes(s.wheelTime, 2)
              \o Bytes(s.crank, 2) \o Bytes(s.crankTime, 2)

\* lengths of the buffers that end before the full frame does: 8 is too
\* short, 9 and 10 end inside the crank-time field
ShortLengths == {8, 9, 10}

\* The buffers cadence_characteristic.notified() may return next: a full
\* 11-byte frame of the sensor's counters, or the first bytes of a frame
\* whose counters have not moved (parse_buffer keeps no counter it reads
\* from a buffer that ends early).
Notified(last) ==
    LET base == IF last = None THEN StartCounters ELSE last
    IN  { Frame(f, s) : f \in FlagBytes, s \in Counters(base) }
        \cup { SubSeq(Frame(f, base), 1, n) :
                 f \in FlagBytes, n \in ShortLengths }

(* ----------------------------- the handler ---------------------------- *)

Globals ==
    [previousSample |-> previousSample, currentSample |-> currentSample,
     hasWheel |-> hasWheel, hasCrank |-> hasCrank,
     startDistance |-> startDistance, bluetoothStats |-> bluetoothStats]

\* "if sensor_data:" guards the display update; the result is the record
\* handed to metric_on_screen, or None when the update is skipped.  stats is
\* the global bluetoothStats after the call.
to_display_global(ret, stats) == stats

to_display(ret, stats) == IF Truthy(ret) THEN ret ELSE None

\* one iteration of the while True loop of notification_handler; r is the
\* result of the parse_buffer call, the buttons are read only by
\* metric_on_screen
handle(buffer, r) ==
    /\ data' = buffer
    /\ sensor_data' = r.ret
    /\ previousSample' = r.g.previousSample
    /\ currentSample' = r.g.currentSample
    /\ hasWheel' = r.g.hasWheel
    /\ hasCrank' = r.g.hasCrank
    /\ startDistance' = r.g.startDistance
    /\ bluetoothStats' = r.g.bluetoothStats
    /\ \E shown \in {to_display(r.ret, r.g.bluetoothStats)} :
          IF shown # None
          THEN \E keys \in KeyStates : screen' = metric_on_screen(shown, keys)
          ELSE screen' = screen

notification_handler ==
    /\ diff_call.pc = "idle"
    /\ frames < MaxFrames
    /\ \E buffer \in Notified(currentSample) :
          \E r \in {parse_buffer(buffer, Globals)} : handle(buffer, r)
    /\ frames' = frames + 1
    /\ UNCHANGED <<diff_call, stats_call, tasks>>

\* SpinMain.py in notification mode: the handler task waits in notified(),
\* the main coroutine sleeps in its while loop
NotifyTasks ==
    /\ program = "SpinMain.py"
    /\ session = "connected"
    /\ running = "loop"
    /\ main_pc = "sleep"
    /\ handler_pc = "notified"

Init ==
    /\ previousSample = None
    /\ currentSample = None
    /\ hasWheel = FALSE
    /\ hasCrank = FALSE
    /\ startDistance = Zero
    /\ bluetoothStats = None
    /\ data = <<>>
    /\ sensor_data = None
    /\ screen = write_metric("IC4-RPM", None)
    /\ frames = 0
    /\ diff_call = [pc |-> "idle"]
    /\ stats_call = [pc |-> "idle"]
    /\ NotifyTasks

Next == notification_handler

Spec == Init /\ [][Next]_vars

(* ---------------- diff_for_sample as a function of its inputs ---------- *)

\* moduli tried: the small ones, the two the program passes, and 2^16
Moduli == (1..MaxModulus) \cup {UINT16_MAX, 65536}

CounterValues == (0..(MaxModulus - 1)) \cup {65024, 65530, 65534, 65535}

InitDiff ==
    /\ previousSample = None
    /\ currentSample = None
    /\ hasWheel = FALSE
    /\ hasCrank = FALSE
    /\ startDistance = Zero
    /\ bluetoothStats = None
    /\ data = <<>>
    /\ sensor_data = None
    /\ screen = write_metric("IC4-RPM", None)
    /\ frames = 0
    /\ stats_call = [pc |-> "idle"]
    /\ NotifyTasks
    /\ \E m \in Moduli :
         \E c \in CounterValues, p \in CounterValues :
            /\ c < m
            /\ p < m
            /\ diff_call = [pc |-> "call", current |-> c, previous |-> p,
                            max_value |-> m]

DiffCall ==
    /\ diff_call.pc = "call"
    /\ diff_call' = [pc |-> "return", current |-> diff_call.current,
                     previous |-> diff_call.previous,
                     max_value |-> diff_call.max_value,
                     result |-> diff_for_sample(diff_call.current,
                                                diff_call.previous,
                                                diff_call.max_value)]
    /\ UNCHANGED <<engine, data, sensor_data, screen, frames, stats_call,
                   tasks>>

NextDiff == DiffCall

SpecDiff == InitDiff /\ [][NextDiff]_vars

(* ---------------- calculate_stats as a function of the globals -------- *)

\* <<previous, current>> readings of a 16-bit event timer, a short interval
\* apart: unchanged, advanced, and advanced across the wrap at 65536
TimerPairs ==
    {<<0, 0>>, <<0, 512>>, <<0, 1024>>, <<65530, 65530>>, <<65530, 5>>,
     <<65024, 0>>, <<65535, 0>>}

\* <<previous, current>> wheel counts; the count does not wrap
WheelPairs == {<<1000, 1000>>, <<1000, 1010>>}

\* <<previous, current>> crank counts, the last across the wrap
CrankPairs == {<<7, 7>>, <<7, 10>>, <<65530, 5>>}

\* smoothed stats left by earlier calls; None before the first snapshot
EarlierStats ==
    {None,
     [cadence |-> Whole(90), distance |-> Zero, speed |-> <<1, 10>>],
     [cadence |-> Zero, distance |-> <<421, 20000000>>, speed |-> Whole(100)]}

\* baselines left by the first decode
Baselines == {start_distance([wheel |-> 1000]), start_distance([wheel |-> 990])}

InitStats ==
    /\ previousSample = None
    /\ currentSample = None
    /\ hasWheel = FALSE
    /\ hasCrank = FALSE
    /\ startDistance = Zero
    /\ bluetoothStats = None
    /\ data = <<>>
    /\ sensor_data = None
    /\ screen = write_metric("IC4-RPM", None)
    /\ frames = 0
    /\ diff_call = [pc |-> "idle"]
    /\ NotifyTasks
    /\ \E w \in WheelPairs, wt \in TimerPairs, c \in CrankPairs,
          ct \in TimerPairs, hw \in BOOLEAN, hc \in BOOLEAN,
          old \in EarlierStats, base \in Baselines, first \in BOOLEAN :
          /\ first => (old = None /\ base = Zero)
          /\ ~first => base # Zero
          /\ stats_call =
               [pc |-> "call",
                g  |-> [previousSample |->
                          IF first THEN None
                          ELSE [wheel |-> w[1], wheelTime |-> wt[1],
                                crank |-> c[1], crankTime |-> ct[1]],
                        currentSample |->
                          [wheel |-> w[2], wheelTime |-> wt[2],
                           crank |-> c[2], crankTime |-> ct[2]],
                        hasWheel |-> hw, hasCrank |-> hc,
                        startDistance |-> base,
                        bluetoothStats |-> old]]

StatsCall ==
    /\ stats_call.pc = "call"
    /\ stats_call' = [pc |-> "return", g |-> stats_call.g,
                      result |-> calculate_stats(stats_call.g)]
    /\ UNCHANGED <<engine, data, sensor_data, screen, frames, diff_call,
                   tasks>>

NextStats == StatsCall

SpecStats == InitStats /\ [][NextStats]_vars

(* ------------- the two coroutines of main(), statement by statement ---- *)

\* notifications delivered in a session of this specification
MaxTaskFrames == 2

\* the handler suspended inside the try block of parse_buffer as well
handler_awaits_in_parse_buffer == {"notified", "unpack"}

\* the statements of notification_handler that suspend it: the one await,
\* "data = await cadence_characteristic.notified()"
handler_awaits == {"notified"}

\* who runs after the handler has moved to statement pc: the event loop when
\* the statement awaits, the handler itself otherwise
after_handler(pc) == IF pc \in handler_awaits THEN "loop" ELSE "handler"

\* both scripts, notifications subscribed: create_task has queued the
\* handler, which waits for its first notification; main goes on to its
\* while loop
InitTasks ==
    /\ previousSample = None
    /\ currentSample = None
    /\ hasWheel = FALSE
    /\ hasCrank = FALSE
    /\ startDistance = Zero
    /\ bluetoothStats = None
    /\ data = <<>>
    /\ sensor_data = None
    /\ screen = write_metric("IC4-RPM", None)
    /\ frames = 0
    /\ diff_call = [pc |-> "idle"]
    /\ stats_call = [pc |-> "idle"]
    /\ program \in {"SpinMain.py", "main.py"}
    /\ session = "connected"
    /\ running = "main"
    /\ main_pc = "is_connected"
    /\ handler_pc = "notified"

\* "while connection.is_connected():" and the body up to its await
main_is_connected ==
    /\ running = "main"
    /\ main_pc = "is_connected"
    /\ IF session = "connected"
       THEN main_pc' = "sleep" /\ running' = "loop"
       ELSE main_pc' = "done" /\ running' = "done"
    /\ UNCHANGED <<engine, data, sensor_data, screen, frames, diff_call,
                   stats_call, program, session, handler_pc>>

\* asyncio.sleep(SLEEP_TIME_MS) is over: the event loop resumes main
main_wakes ==
    /\ running = "loop"
    /\ main_pc = "sleep"
    /\ main_pc' = "is_connected"
    /\ running' = "main"
    /\ UNCHANGED <<engine, data, sensor_data, screen, frames, diff_call,
                   stats_call, program, session, handler_pc>>

\* the sensor goes away while both coroutines are suspended
disconnects ==
    /\ running = "loop"
    /\ session = "connected"
    /\ session' = "disconnected"
    /\ UNCHANGED <<engine, data, sensor_data, screen, frames, diff_call,
                   stats_call, program, running, main_pc, handler_pc>>

\* the event loop resumes the handler at the await it is suspended in; at
\* notified() that is the arrival of a notification
handler_resumes ==
    /\ running = "loop"
    /\ session = "connected"
    /\ handler_pc \in handler_awaits
    /\ running' = "handler"
    /\ IF handler_pc = "notified"
       THEN /\ frames < MaxTaskFrames
            /\ \E buffer \in Notified(currentSample) : data' = buffer
            /\ frames' = frames + 1
            /\ handler_pc' = "parse_buffer"
       ELSE UNCHANGED <<data, frames, handler_pc>>
    /\ UNCHANGED <<engine, sensor_data, screen, diff_call, stats_call,
                   program, session, main_pc>>

\* the value of parse_buffer(data) reaches the handler: SpinMain.py keeps it
\* in sensor_data, main.py drops it
returned(ret) ==
    sensor_data' = IF program = "SpinMain.py" THEN ret ELSE sensor_data

\* parse_buffer: "if len(buffer) < 9: return None", else the flags
parse_buffer_flags ==
    /\ running = "handler"
    /\ handler_pc = "parse_buffer"
    /\ IF too_short(data)
       THEN /\ returned(None)
            /\ handler_pc' = "if_sensor_data"
            /\ UNCHANGED <<hasWheel, hasCrank>>
       ELSE /\ hasWheel' = (data[1] = 1 \/ data[1] = 3)
            /\ hasCrank' = (data[1] = 2 \/ data[1] = 3)
            /\ handler_pc' = "shift"
            /\ UNCHANGED sensor_data
    /\ running' = after_handler(handler_pc')
    /\ UNCHANGED <<previousSample, currentSample, startDistance,
                   bluetoothStats, data, screen, frames, diff_call,
                   stats_call, program, session, main_pc>>

\* parse_buffer: "previousSample = currentSample"
parse_buffer_shift ==
    /\ running = "handler"
    /\ handler_pc = "shift"
    /\ previousSample' = currentSample
    /\ handler_pc' = "unpack"
    /\ running' = after_handler(handler_pc')
    /\ UNCHANGED <<currentSample, hasWheel, hasCrank, startDistance,
                   bluetoothStats, data, sensor_data, screen, frames,
                   diff_call, stats_call, program, session, main_pc>>

\* parse_buffer: the four unpack_from calls and the assignment of
\* currentSample, or the except clause
parse_buffer_unpack ==
    /\ running = "handler"
    /\ handler_pc = "unpack"
    /\ IF \/ struct_error(4, data, 1)
          \/ struct_error(2, data, 5)
          \/ struct_error(2, data, 7)
          \/ struct_error(2, data, 9)
       THEN /\ currentSample' = except_struct_error(Globals).currentSample
            /\ returned(None)
            /\ handler_pc' = "if_sensor_data"
       ELSE /\ currentSample' = [wheel     |-> unpack_from(4, data, 1),
                                 wheelTime |-> unpack_from(2, data, 5),
                                 crank     |-> unpack_from(2, data, 7),
                                 crankTime |-> unpack_from(2, data, 9)]
            /\ handler_pc' = "calculate_stats"
            /\ UNCHANGED sensor_data
    /\ running' = after_handler(handler_pc')
    /\ UNCHANGED <<previousSample, hasWheel, hasCrank, startDistance,
                   bluetoothStats, data, screen, frames, diff_call,
                   stats_call, program, session, main_pc>>

\* parse_buffer: "calculate_stats()" and "return bluetoothStats"
parse_buffer_calculate_stats ==
    /\ running = "handler"
    /\ handler_pc = "calculate_stats"
    /\ \E g \in {calculate_stats(Globals)} :
          /\ startDistance' = g.startDistance
          /\ bluetoothStats' = g.bluetoothStats
          /\ returned(g.bluetoothStats)
    /\ handler_pc' = "if_sensor_data"
    /\ running' = after_handler(handler_pc')
    /\ UNCHANGED <<previousSample, currentSample, hasWheel, hasCrank, data,
                   screen, frames, diff_call, stats_call, program, session,
                   main_pc>>

\* the rest of the iteration: SpinMain.py's "if sensor_data:" with the
\* display update, the print, and back to the await
handler_if_sensor_data ==
    /\ running = "handler"
    /\ handler_pc = "if_sensor_data"
    /\ \E shown \in {to_display(sensor_data, bluetoothStats)} :
          IF program = "SpinMain.py" /\ shown # None
          THEN \E keys \in KeyStates : screen' = metric_on_screen(shown, keys)
          ELSE screen' = screen
    /\ handler_pc' = "notified"
    /\ running' = after_handler(handler_pc')
    /\ UNCHANGED <<engine, data, sensor_data, frames, diff_call, stats_call,
                   program, session, main_pc>>

NextTasks ==
    \/ main_is_connected
    \/ main_wakes
    \/ disconnects
    \/ handler_resumes
    \/ parse_buffer_flags
    \/ parse_buffer_shift
    \/ parse_buffer_unpack
    \/ parse_buffer_calculate_stats
    \/ handler_if_sensor_data

SpecTasks == InitTasks /\ [][NextTasks]_vars

(* ------------------ the polled read loop of main() -------------------- *)

\* both read loops unpacking three names
unpack_names_three(script) == 3

\* the number of names the read loop unpacks a snapshot into:
\* "power, cadence, speed, heart_rate = sensor_data" in main.py,
\* "cadence, distance, speed = sensor_data.values()" in SpinMain.py
unpack_names(script) == IF script = "main.py" THEN 4 ELSE 3

\* the number of items the unpacked object yields: the keys of the dict in
\* main.py, its values in SpinMain.py
unpack_items(stats) == Cardinality(DOMAIN stats)

\* unpacking raises ValueError when the two numbers differ
ValueError(script, stats) == unpack_names(script) # unpack_items(stats)

\* the characteristic offers PROP_READ only: no handler task, main polls
InitRead ==
    /\ previousSample = None
    /\ currentSample = None
    /\ hasWheel = FALSE
    /\ hasCrank = FALSE
    /\ startDistance = Zero
    /\ bluetoothStats = None
    /\ data = <<>>
    /\ sensor_data = None
    /\ screen = write_metric("IC4-RPM", None)
    /\ frames = 0
    /\ diff_call = [pc |-> "idle"]
    /\ stats_call = [pc |-> "idle"]
    /\ program \in {"SpinMain.py", "main.py"}
    /\ session = "connected"
    /\ running = "main"
    /\ main_pc = "is_connected"
    /\ handler_pc = "absent"

\* "while connection.is_connected():" and "await cadence_characteristic.read()"
read_is_connected ==
    /\ running = "main"
    /\ main_pc = "is_connected"
    /\ IF session = "connected"
       THEN main_pc' = "read" /\ running' = "loop"
       ELSE main_pc' = "done" /\ running' = "done"
    /\ UNCHANGED <<engine, data, sensor_data, screen, frames, diff_call,
                   stats_call, program, session, handler_pc>>

\* read() returns a buffer: parse_buffer, "if sensor_data:" with the
\* unpacking, then the await of asyncio.sleep; a ValueError leaves the loop
\* for "except Exception", which prints, and "async with connection" closes
\* the connection
read_returns ==
    /\ running = "loop"
    /\ main_pc = "read"
    /\ session = "connected"
    /\ frames < MaxFrames
    /\ \E buffer \in Notified(currentSample) :
          \E r \in {parse_buffer(buffer, Globals)} :
             /\ data' = buffer
             /\ sensor_data' = r.ret
             /\ previousSample' = r.g.previousSample
             /\ currentSample' = r.g.currentSample
             /\ hasWheel' = r.g.hasWheel
             /\ hasCrank' = r.g.hasCrank
             /\ startDistance' = r.g.startDistance
             /\ bluetoothStats' = r.g.bluetoothStats
             /\ IF Truthy(r.ret) /\ ValueError(program, r.ret)
                THEN /\ main_pc' = "except"
                     /\ session' = "closed"
                     /\ running' = "done"
                ELSE /\ main_pc' = "sleep"
                     /\ running' = "loop"
                     /\ UNCHANGED session
    /\ frames' = frames + 1
    /\ UNCHANGED <<screen, diff_call, stats_call, program, handler_pc>>

\* the connection is gone when read() is awaited: it raises, and the loop is
\* left for "except Exception"
read_raises ==
    /\ running = "loop"
    /\ main_pc = "read"
    /\ session = "disconnected"
    /\ main_pc' = "except"
    /\ session' = "closed"
    /\ running' = "done"
    /\ UNCHANGED <<engine, data, sensor_data, screen, frames, diff_call,
                   stats_call, program, handler_pc>>

NextRead ==
    \/ read_is_connected
    \/ read_returns
    \/ read_raises
    \/ main_wakes
    \/ disconnects

SpecRead == InitRead /\ [][NextRead]_vars

(* ---------------- the smoothing in floating-point arithmetic ---------- *)

\* A float is [m |-> mantissa, e |-> exponent] of value m * 2^e; the mantissa
\* is a natural number of exactly as many bits as the precision, or zero.
\* Only the non-negative values of cadence and speed occur, far from overflow
\* and underflow.  Natural numbers beyond 32-bit integers are
\* sequences of 14-bit limbs, least significant first, the top limb non-zero.

\* bits of the mantissa: 53 for CPython's float, 24 for the single-precision
\* float of MicroPython builds such as the Pico's
FloatPrecisions == {24, 53}

LimbBits == 14

Pow2(k) ==
    <<1, 2, 4, 8, 16, 32, 64, 128, 256, 512, 1024, 2048, 4096, 8192,
      16384>>[k + 1]

Base == Pow2(LimbBits)

Limb(n, i) == IF i >= 1 /\ i <= Len(n) THEN n[i] ELSE 0

\* without the zero limbs on top
Strip(n) ==
    LET used == {i \in 1..Len(n) : n[i] # 0}
    IN  IF used = {} THEN <<>>
        ELSE SubSeq(n, 1, CHOOSE i \in used : \A j \in used : j <= i)

\* the natural number of an integer below Base^2
Nat2(k) == Strip(<<k % Base, k \div Base>>)

\* bits of an integer below Base
Width(x) == CHOOSE k \in 0..LimbBits : x < Pow2(k) /\ (k = 0 \/ x >= Pow2(k - 1))

BitLen(n) ==
    IF n = <<>> THEN 0 ELSE (Len(n) - 1) * LimbBits + Width(n[Len(n)])

RECURSIVE AddFrom(_, _, _, _)
AddFrom(a, b, i, carry) ==
    IF i > Len(a) /\ i > Len(b)
    THEN IF carry = 0 THEN <<>> ELSE <<carry>>
    ELSE LET t == Limb(a, i) + Limb(b, i) + carry
         IN  <<t % Base>> \o AddFrom(a, b, i + 1, t \div Base)

NAdd(a, b) == AddFrom(a, b, 1, 0)

RECURSIVE SubFrom(_, _, _, _)
SubFrom(a, b, i, borrow) ==
    IF i > Len(a) THEN <<>>
    ELSE LET t == Limb(a, i) - Limb(b, i) - borrow
         IN  <<(t + Base) % Base>>
               \o SubFrom(a, b, i + 1, IF t < 0 THEN 1 ELSE 0)

\* a - b for a >= b
NSub(a, b) == Strip(SubFrom(a, b, 1, 0))

RECURSIVE Column(_, _, _, _)
\* the sum of the limb products a[i] * b[k + 1 - i] for i..Len(a)
Column(a, b, k, i) ==
    IF i > Len(a) THEN 0
    ELSE a[i] * Limb(b, k + 1 - i) + Column(a, b, k, i + 1)

RECURSIVE MulFrom(_, _, _, _)
MulFrom(a, b, k, carry) ==
    IF k > Len(a) + Len(b) THEN <<>>
    ELSE LET t == Column(a, b, k, 1) + carry
         IN  <<t % Base>> \o MulFrom(a, b, k + 1, t \div Base)

NMul(a, b) == Strip(MulFrom(a, b, 1, 0))

RECURSIVE DivFrom(_, _, _, _)
\* long division of the limbs i..1 of n by the integer d < 1024
DivFrom(n, d, i, rem) ==
    IF i = 0 THEN [q |-> <<>>, rem |-> rem]
    ELSE LET t    == rem * Base + n[i]
             rest == DivFrom(n, d, i - 1, t % d)
         IN  [q |-> rest.q \o <<t \div d>>, rem |-> rest.rem]

\* n * 2^k
NShl(n, k) ==
    LET q == k \div LimbBits
        r == k % LimbBits
    IN  Strip([j \in 1..(Len(n) + q + 1) |->
                 IF j <= q THEN 0
                 ELSE (Limb(n, j - q) % Pow2(LimbBits - r)) * Pow2(r)
                      + Limb(n, j - q - 1) \div Pow2(LimbBits - r)])

\* n \div 2^k
NShr(n, k) ==
    LET q == k \div LimbBits
        r == k % LimbBits
    IN  IF Len(n) <= q THEN <<>>
        ELSE Strip([j \in 1..(Len(n) - q) |->
                      n[j + q] \div Pow2(r)
                      + (Limb(n, j + q + 1) % Pow2(r)) * Pow2(LimbBits - r)])

\* a < b
NLess(a, b) ==
    \/ Len(a) < Len(b)
    \/ /\ Len(a) = Len(b)
       /\ \E i \in 1..Len(a) :
             a[i] < b[i] /\ \A j \in (i + 1)..Len(a) : a[j] = b[j]

FloatZero == [m |-> <<>>, e |-> 0]

\* n * 2^e rounded to p bits, to nearest, ties to even
Round(p, n, e) ==
    IF n = <<>> THEN FloatZero
    ELSE IF BitLen(n) <= p
    THEN [m |-> NShl(n, p - BitLen(n)), e |-> e - (p - BitLen(n))]
    ELSE LET k      == BitLen(n) - p
             kept   == NShr(n, k)
             half   == NShr(n, k - 1)
             sticky == NShl(half, k - 1) # n
             up     == half[1] % 2 = 1 /\ (sticky \/ kept[1] % 2 = 1)
             r      == IF up THEN NAdd(kept, <<1>>) ELSE kept
         IN  IF BitLen(r) > p
             THEN [m |-> NShr(r, 1), e |-> e + k + 1]
             ELSE [m |-> r, e |-> e + k]

\* float(k) of an integer below Base^2
FromInt(p, k) == Round(p, Nat2(k), 0)

\* x * y
FMul(p, x, y) == Round(p, NMul(x.m, y.m), x.e + y.e)

\* both mantissas at the smaller of the two exponents
Aligned(x, y) ==
    LET e == IF x.e <= y.e THEN x.e ELSE y.e
    IN  [a |-> NShl(x.m, x.e - e), b |-> NShl(y.m, y.e - e), e |-> e]

\* x + y
FAdd(p, x, y) ==
    IF x.m = <<>> THEN y
    ELSE IF y.m = <<>> THEN x
    ELSE LET al == Aligned(x, y) IN Round(p, NAdd(al.a, al.b), al.e)

\* x - y for x >= y
FSub(p, x, y) ==
    IF y.m = <<>> THEN x
    ELSE LET al == Aligned(x, y) IN Round(p, NSub(al.a, al.b), al.e)

\* x / d for an integer d < 1024: the quotient is taken with p + 2 bits more
\* than x and a last bit that tells whether a remainder was left
FDivInt(p, x, d) ==
    LET n == NShl(x.m, p + 2)
        r == DivFrom(n, d, Len(n), 0)
    IN  Round(p, NAdd(NShl(Strip(r.q), 1), IF r.rem = 0 THEN <<>> ELSE <<1>>),
              x.e - (p + 2) - 1)

\* the float of a decimal literal such as 0.1 = 1/10
Literal(p, num, den) == FDivInt(p, FromInt(p, num), den)

\* x < y
FLess(x, y) ==
    IF y.m = <<>> THEN FALSE
    ELSE IF x.m = <<>> THEN TRUE
    ELSE x.e < y.e \/ (x.e = y.e /\ NLess(x.m, y.m))

FLeq(x, y) == x = y \/ FLess(x, y)

\* the speed of 10 revolutions in 1024 ticks, as calculate_stats computes it:
\* wheel_time_diff = 1024 / 1024 is 1.0, and dividing by 1.0 changes nothing
speed_of_ten_revolutions(p) ==
    LET sample_distance ==
            FDivInt(p, FMul(p, FromInt(p, 10), Literal(p, 2105, 1000)), 1000)
    IN  FMul(p, sample_distance, Literal(p, 36, 10))

\* the cadence of 3 revolutions in 512 ticks: 60 * 3 / 0.5, exact
cadence_of_three_revolutions(p) == FromInt(p, 360)

\* updateRatio = 0.1 as a float
updateRatioFloat(p) == Literal(p, 1, 10)

\* the instantaneous value added in full to the decayed smoothed one
smoothed_float_unweighted(p, stats_value, value) ==
    FAdd(p, FMul(p, stats_value,
                 FSub(p, FromInt(p, 1), updateRatioFloat(p))),
         value)

\* bluetoothStats[k] * (1 - updateRatio) + value * updateRatio, each
\* operation rounded
smoothed_float(p, stats_value, value) ==
    FAdd(p, FMul(p, stats_value,
                 FSub(p, FromInt(p, 1), updateRatioFloat(p))),
         FMul(p, value, updateRatioFloat(p)))

\* updates with the same instantaneous value in one run
MaxUpdates == 340

\* <<first snapshot, instantaneous value of the frames that follow>>: a bike
\* at rest that starts rolling at 10 revolutions a second, or pedalling at 3
\* revolutions in 512 ticks; pedalling that slows to 3 revolutions in 1024
\* ticks, or stops
SmoothedRuns(p) ==
    {<<FloatZero, speed_of_ten_revolutions(p)>>,
     <<FloatZero, cadence_of_three_revolutions(p)>>,
     <<cadence_of_three_revolutions(p), FromInt(p, 180)>>,
     <<cadence_of_three_revolutions(p), FloatZero>>}

InitFloat ==
    /\ previousSample = None
    /\ currentSample = None
    /\ hasWheel = FALSE
    /\ hasCrank = FALSE
    /\ startDistance = Zero
    /\ bluetoothStats = None
    /\ data = <<>>
    /\ sensor_data = None
    /\ screen = write_metric("IC4-RPM", None)
    /\ frames = 0
    /\ diff_call = [pc |-> "idle"]
    /\ NotifyTasks
    /\ \E p \in FloatPrecisions : \E run \in SmoothedRuns(p) :
          stats_call = [pc |-> "smoothed", precision |-> p,
                        smoothed |-> run[1], value |-> run[2], updates |-> 0]

\* one more call of calculate_stats with the same instantaneous value
SmoothAgain ==
    /\ stats_call.pc = "smoothed"
    /\ stats_call.updates < MaxUpdates
    /\ stats_call' =
         [stats_call EXCEPT
            !.smoothed = smoothed_float(stats_call.precision,
                                        stats_call.smoothed,
                                        stats_call.value),
            !.updates = stats_call.updates + 1]
    /\ UNCHANGED <<engine, data, sensor_data, screen, frames, diff_call,
                   tasks>>

NextFloat == SmoothAgain

SpecFloat == InitFloat /\ [][NextFloat]_vars

(* ------------------------------ properties ---------------------------- *)

\* Every step of Spec is one handler iteration on the buffer left in data':
\* the decode succeeded iff the buffer holds the whole 11-byte frame.
Decoded(buffer) == Len(buffer) >= 11

Failed(buffer) == Len(buffer) < 11

Bit(flags, k) == (flags \div (2 ^ k)) % 2 = 1

\* wheel * wheelSize / 1 000 000 (km), written out with wheelSize in mm
KmOfWheel(wheel) == Rat(wheel * 2105, 1000000000)

\* C1: a decode failure (buffer shorter than 9 bytes, or a 9- or 10-byte
\* buffer whose offset-9 field cannot be read) never replaces
\* previousSample: its value after the call equals its value before.
C1_FailureKeepsPrevious ==
    [][Failed(data') => previousSample' = previousSample]_vars

\* C2: startDistance is assigned exactly once, by the very first successful
\* decode and from that sample's wheel count; no other call changes it.
C2_StartDistanceOnce ==
    [][/\ (Decoded(data') /\ currentSample = None)
            => startDistance' = KmOfWheel(currentSample'.wheel)
       /\ ~(Decoded(data') /\ currentSample = None)
            => startDistance' = startDistance]_vars

\* a later sample with another wheel count was decoded, a snapshot exists,
\* and the baseline is still that of the first sample
C2_Witness ==
    /\ bluetoothStats # None
    /\ currentSample.wheel > StartCounters.wheel
    /\ startDistance = KmOfWheel(StartCounters.wheel)

Bootstrapped == currentSample # None

\* C3: the engine is Uninitialized until the first successful decode, then
\* Bootstrapped; once Bootstrapped every successful decode returns a
\* snapshot, and no buffer returns it to Uninitialized.
C3_TwoStates ==
    [][/\ (~Bootstrapped /\ Failed(data')) => ~Bootstrapped'
       /\ (~Bootstrapped /\ Decoded(data')) => Bootstrapped'
       /\ Bootstrapped => Bootstrapped'
       /\ (Bootstrapped /\ Decoded(data')) => sensor_data' # None]_vars

\* a buffer that failed in the middle of the decode, after a snapshot
C3_Witness ==
    /\ Bootstrapped
    /\ bluetoothStats # None
    /\ Len(data) \in {9, 10}

\* C4: decoding a buffer shorter than 9 bytes returns the failure value and
\* leaves previousSample, currentSample, hasWheel, hasCrank, startDistance
\* and bluetoothStats unchanged.
C4_TooShortNoEffect ==
    [][Len(data') < 9 => (sensor_data' = None /\ engine' = engine)]_vars

\* a too-short buffer received when every global has been assigned
C4_Witness ==
    /\ Len(data) < 9
    /\ sensor_data = None
    /\ previousSample # None
    /\ bluetoothStats # None
    /\ hasWheel
    /\ hasCrank

\* C5: a snapshot, once it exists, is never reset to absent; a failed decode
\* leaves it unchanged and writes nothing to the display; the display is
\* written only after a parse_buffer call that returned a snapshot.
C5_HoldLastSnapshot ==
    [][/\ bluetoothStats # None => bluetoothStats' # None
       /\ Failed(data') => (bluetoothStats' = bluetoothStats /\ screen' = screen)
       /\ sensor_data' = None => screen' = screen]_vars

\* a failed decode with a snapshot on the panel
C5_Witness ==
    /\ Failed(data)
    /\ sensor_data = None
    /\ bluetoothStats # None
    /\ screen.title \in {"Cadence", "Speed", "Distance"}

\* C6: for every flag byte, wheel data is present exactly when bit 0 is set
\* and crank data exactly when bit 1 is set, whatever the other bits.
C6_FlagBits ==
    Len(data) >= 9 =>
        /\ hasWheel <=> Bit(data[1], 0)
        /\ hasCrank <=> Bit(data[1], 1)

\* C7: for 0 <= previous, current < modulus, diff_for_sample returns a value
\* in [0, modulus) that is current - previous when current >= previous and
\* (modulus - previous) + current otherwise; it is 0 when they are equal.
C7_ForwardDelta ==
    diff_call.pc = "return" =>
        LET c == diff_call.current
            p == diff_call.previous
            m == diff_call.max_value
            r == diff_call.result
        IN  /\ r >= 0
            /\ r < m
            /\ c >= p => r = c - p
            /\ c < p => r = (m - p) + c
            /\ c = p => r = 0

\* the wraparound call forward_delta(5, 65530, 65536) has returned
C7_Witness ==
    /\ diff_call.pc = "return"
    /\ diff_call.current = 5
    /\ diff_call.previous = 65530
    /\ diff_call.max_value = 65536
    /\ diff_call.result = 11

\* the speed of the claim: wheel_diff * wheel_size_m / wheel_time_diff_s * 3.6
\* with the deltas taken modulo the counters' widths (the wheel count does
\* not wrap here)
ClaimedSpeed(prev, cur) ==
    LET wheel_diff == cur.wheel - prev.wheel
        ticks == (cur.wheelTime - prev.wheelTime) % 65536
    IN  RMul(RDiv(RMul(Whole(wheel_diff), wheelSize), Rat(ticks, 1024)),
             <<18, 5>>)

\* C8: with wheel data and a non-zero wheel event-time delta the
\* instantaneous speed is wheel_diff * wheel_size_m / wheel_time_diff_s * 3.6
\* km/h, and it is the smoothed speed when it is the first computed reading.
C8_SpeedFormula ==
    [][(/\ Decoded(data')
        /\ previousSample' # None
        /\ hasWheel'
        /\ currentSample'.wheelTime # previousSample'.wheelTime
        /\ bluetoothStats = None)
       => bluetoothStats'.speed = ClaimedSpeed(previousSample', currentSample')]_vars

NeitherFlag(buffer) == ~Bit(buffer[1], 0) /\ ~Bit(buffer[1], 1)

\* previous smoothed value with an instantaneous 0 folded in
TowardZero(x) == RMul(x, <<9, 10>>)

\* C9 as stated: a frame with neither flag set, arriving after a snapshot
\* exists, yields cadence and speed moved toward zero and a distance frozen
\* at the value of the preceding snapshot.
C9_DistanceFrozen ==
    [][(Decoded(data') /\ NeitherFlag(data') /\ bluetoothStats # None)
       => /\ bluetoothStats'.cadence = TowardZero(bluetoothStats.cadence)
          /\ bluetoothStats'.speed = TowardZero(bluetoothStats.speed)
          /\ bluetoothStats'.distance = bluetoothStats.distance]_vars

\* C9 amended: a frame with neither flag set, arriving after a snapshot
\* exists, yields cadence and speed moved toward zero and a distance of 0.
C9_DistanceZero ==
    [][(Decoded(data') /\ NeitherFlag(data') /\ bluetoothStats # None)
       => /\ sensor_data' = bluetoothStats'
          /\ bluetoothStats'.cadence = TowardZero(bluetoothStats.cadence)
          /\ bluetoothStats'.speed = TowardZero(bluetoothStats.speed)
          /\ bluetoothStats'.distance = Zero]_vars

\* a flagless frame decoded after a snapshot made from moving wheel and
\* crank: speed and cadence are still positive, the distance is 0
C9_Witness ==
    /\ Decoded(data)
    /\ NeitherFlag(data)
    /\ bluetoothStats # None
    /\ RLess(Zero, bluetoothStats.speed)
    /\ RLess(Zero, bluetoothStats.cadence)
    /\ bluetoothStats.distance = Zero
    /\ currentSample.wheel > StartCounters.wheel

\* C10: over consecutive successful decodes with flag bit 0 set on every
\* sample and a wheel count that does not decrease, each snapshot's distance
\* is at least that of the preceding snapshot, and never negative.
C10_DistanceMonotone ==
    [][(/\ Decoded(data) /\ Bit(data[1], 0) /\ bluetoothStats # None
        /\ Decoded(data') /\ Bit(data'[1], 0)
        /\ currentSample'.wheel >= currentSample.wheel)
       => /\ RLeq(bluetoothStats.distance, bluetoothStats'.distance)
          /\ RLeq(Zero, bluetoothStats'.distance)]_vars

(* --------------------- calculate_stats, call by call ------------------ *)

\* a call of calculate_stats that has returned a snapshot: the globals it
\* was entered with held a previous sample
Computed ==
    /\ stats_call.pc = "return"
    /\ stats_call.g.previousSample # None

IsError(stats) ==
    \/ stats.cadence = ZeroDivisionError
    \/ stats.distance = ZeroDivisionError
    \/ stats.speed = ZeroDivisionError

\* what the smoothing leaves of an instantaneous value of zero
Decayed(old, field) ==
    IF old = None THEN Zero ELSE RMul(old[field], <<9, 10>>)

\* C11: for every pair of consecutive in-range samples calculate_stats raises
\* no error, the snapshot has cadence >= 0 and speed >= 0, and a wheel (resp.
\* crank) event time that did not move contributes a speed (resp. cadence) of
\* 0 instead of dividing by zero
C11_NoErrorNonNegative ==
    Computed =>
        LET g   == stats_call.g
            out == stats_call.result.bluetoothStats
        IN  /\ out # None
            /\ ~IsError(out)
            /\ RLeq(Zero, out.cadence)
            /\ RLeq(Zero, out.speed)
            /\ (g.hasWheel
                  /\ g.currentSample.wheelTime = g.previousSample.wheelTime)
                 => out.speed = Decayed(g.bluetoothStats, "speed")
            /\ (g.hasCrank
                  /\ g.currentSample.crankTime = g.previousSample.crankTime)
                 => out.cadence = Decayed(g.bluetoothStats, "cadence")

\* both counters moved while both event times stood still
C11_Witness ==
    /\ Computed
    /\ stats_call.g.hasWheel
    /\ stats_call.g.hasCrank
    /\ stats_call.g.bluetoothStats = None
    /\ stats_call.g.currentSample.wheel # stats_call.g.previousSample.wheel
    /\ stats_call.g.currentSample.crank # stats_call.g.previousSample.crank
    /\ stats_call.g.currentSample.wheelTime
         = stats_call.g.previousSample.wheelTime
    /\ stats_call.g.currentSample.crankTime
         = stats_call.g.previousSample.crankTime
    /\ stats_call.result.bluetoothStats.speed = Zero
    /\ stats_call.result.bluetoothStats.cadence = Zero

\* the forward delta of a counter that wraps at modulus
forward_delta(current, previous, modulus) == (current - previous) % modulus

\* 60 * crank_diff / crank_time_diff_s, the time delta being ticks / 1024
ClaimedCadence(prev, cur) ==
    Rat(60 * 1024 * forward_delta(cur.crank, prev.crank, 65536),
        forward_delta(cur.crankTime, prev.crankTime, 65536))

\* C12: when the current sample has crank data and the crank event time
\* moved, the instantaneous cadence (the cadence of an unsmoothed snapshot) is
\* 60 * crank_diff / crank_time_diff_s with crank_time_diff_s the tick delta
\* over 1024; 3 revolutions over 512 ticks give 360
C12_CadenceFormula ==
    (/\ Computed
     /\ stats_call.g.hasCrank
     /\ stats_call.g.bluetoothStats = None
     /\ stats_call.g.currentSample.crankTime
          # stats_call.g.previousSample.crankTime)
    => stats_call.result.bluetoothStats.cadence
         = ClaimedCadence(stats_call.g.previousSample,
                          stats_call.g.currentSample)

\* the smoothed value has moved strictly closer to the instantaneous one
\* without passing it
CloserNoOvershoot(old, new, value) ==
    /\ FLess(old, value) => FLess(old, new) /\ FLeq(new, value)
    /\ FLess(value, old) => FLeq(value, new) /\ FLess(new, old)

\* C13 as stated: with the same instantaneous value fed on every update, each
\* update strictly reduces |smoothed - instantaneous| whenever they differ,
\* and never overshoots
C13_StrictlyCloser ==
    [][CloserNoOvershoot(stats_call.smoothed, stats_call'.smoothed,
                         stats_call.value)]_vars

\* the exponent of the power of two just above a non-zero float
Magnitude(p, x) == x.e + p

\* the smoothed float x is more than 64 units in the last place of the
\* instantaneous value away from it
FarApart(p, x, value) ==
    LET hi  == IF FLess(x, value) THEN value ELSE x
        lo  == IF FLess(x, value) THEN x ELSE value
        gap == FSub(p, hi, lo)
    IN  /\ gap # FloatZero
        /\ \/ value = FloatZero
           \/ Magnitude(p, gap) > Magnitude(p, value) - (p - 6)

\* C13 amended: each update strictly reduces |smoothed - instantaneous| and
\* does not overshoot as long as the two are further apart than the rounding
\* of the float arithmetic reaches; once they are that close they stay so
C13_CloserUntilRounding ==
    [][LET p == stats_call.precision
       IN  IF FarApart(p, stats_call.smoothed, stats_call.value)
           THEN CloserNoOvershoot(stats_call.smoothed, stats_call'.smoothed,
                                  stats_call.value)
           ELSE ~FarApart(p, stats_call'.smoothed, stats_call.value)]_vars

\* the smoothed value on its way up, after ten updates
C13_Witness ==
    /\ stats_call.pc = "smoothed"
    /\ stats_call.updates = 10
    /\ FLess(FloatZero, stats_call.smoothed)
    /\ FLess(stats_call.smoothed, stats_call.value)
    /\ FarApart(stats_call.precision, stats_call.smoothed, stats_call.value)

\* the smoothed value at rest a few units in the last place below the
\* instantaneous one
C13_Stalled ==
    /\ stats_call.pc = "smoothed"
    /\ stats_call.updates = MaxUpdates
    /\ FLess(stats_call.smoothed, stats_call.value)
    /\ stats_call.smoothed
         = smoothed_float(stats_call.precision, stats_call.smoothed,
                          stats_call.value)

\* the speed calculate_stats derives from a wheel delta and a tick delta
SpeedOfDeltas(wheel_diff, ticks) ==
    IF ticks = 0 THEN Zero
    ELSE RMul(Rat(wheel_diff * 2105 * 18, 5000000), Rat(1024, ticks))

\* the cadence calculate_stats derives from a crank delta and a tick delta
CadenceOfDeltas(crank_diff, ticks) ==
    IF ticks = 0 THEN Zero ELSE Rat(60 * 1024 * crank_diff, ticks)

\* C14: every counter delta is taken with the counter's true modulus (65536
\* for both event times and the crank count, 2^32 for the wheel count, which
\* does not wrap here): the speed and cadence of an unsmoothed snapshot are
\* those of the deltas (current - previous) mod 65536, so 65530 -> 5 counts 11
C14_TrueModuli ==
    (Computed /\ stats_call.g.bluetoothStats = None) =>
        LET prev == stats_call.g.previousSample
            cur  == stats_call.g.currentSample
            out  == stats_call.result.bluetoothStats
        IN  /\ stats_call.g.hasWheel =>
                 out.speed =
                   SpeedOfDeltas(cur.wheel - prev.wheel,
                                 forward_delta(cur.wheelTime, prev.wheelTime,
                                               65536))
            /\ stats_call.g.hasCrank =>
                 out.cadence =
                   CadenceOfDeltas(forward_delta(cur.crank, prev.crank, 65536),
                                   forward_delta(cur.crankTime, prev.crankTime,
                                                 65536))

(* ------------------------- the two stored samples --------------------- *)

\* the four counters a full frame carries
SampleOf(buffer) ==
    [wheel     |-> LittleEndian(buffer, 1, 4),
     wheelTime |-> LittleEndian(buffer, 5, 2),
     crank     |-> LittleEndian(buffer, 7, 2),
     crankTime |-> LittleEndian(buffer, 9, 2)]

\* C15: whatever the interleaving of decoded frames, too-short buffers and
\* 9/10-byte buffers failing mid-decode, a failed buffer leaves currentSample
\* as it was, and a decoded frame becomes currentSample while the frame
\* decoded last before it becomes previousSample; so the two samples the
\* metrics are computed from are chronologically adjacent decoded frames
C15_AdjacentDecodedFrames ==
    [][/\ Failed(data') => currentSample' = currentSample
       /\ Decoded(data') => /\ previousSample' = currentSample
                            /\ currentSample' = SampleOf(data')]_vars

\* the first snapshot comes with the third buffer, so one of the two buffers
\* before it failed; its cadence is that of the two decoded frames
C15_Witness ==
    /\ frames = 3
    /\ Decoded(data)
    /\ hasCrank
    /\ sensor_data # None
    /\ previousSample # None
    /\ previousSample.crankTime = 65024
    /\ currentSample.crankTime = 0
    /\ currentSample.crank = previousSample.crank + 3
    /\ sensor_data.cadence = Rat(184320, 511)

\* C16: the first successful decode (no sample stored yet, a full frame
\* arrives) returns no snapshot, leaves the smoothed stats absent and the
\* display untouched, and only stores the sample and the distance baseline;
\* the same when failed decodes came before it
C16_FirstDecodeNoMetrics ==
    [][(currentSample = None /\ Decoded(data'))
       => /\ sensor_data' = None
          /\ bluetoothStats' = None
          /\ screen' = screen
          /\ previousSample' = None
          /\ currentSample' = SampleOf(data')
          /\ startDistance' = KmOfWheel(currentSample'.wheel)]_vars

\* the first decode came second, after a failed buffer
C16_Witness ==
    /\ frames = 2
    /\ Decoded(data)
    /\ previousSample = None
    /\ currentSample = SampleOf(data)
    /\ bluetoothStats = None
    /\ sensor_data = None
    /\ startDistance = KmOfWheel(currentSample.wheel)
    /\ startDistance # Zero

\* the delta the engine takes of a 16-bit counter (see C14)
EngineDelta(current, previous) ==
    IF current >= previous THEN current - previous
    ELSE (65535 - previous) + current

\* the instantaneous speed and cadence of two samples
InstantSpeed(g) ==
    IF g.hasWheel
    THEN SpeedOfDeltas(g.currentSample.wheel - g.previousSample.wheel,
                       EngineDelta(g.currentSample.wheelTime,
                                   g.previousSample.wheelTime))
    ELSE Zero

InstantCadence(g) ==
    IF g.hasCrank
    THEN CadenceOfDeltas(EngineDelta(g.currentSample.crank,
                                     g.previousSample.crank),
                         EngineDelta(g.currentSample.crankTime,
                                     g.previousSample.crankTime))
    ELSE Zero

\* C17: the distance of every snapshot computed from a sample with wheel data
\* is the current wheel count * wheelSize / 1e6 minus the baseline, whatever
\* the earlier snapshot and the smoothing factor; and the cadence and speed of
\* the first snapshot are the instantaneous values, unsmoothed
C17_DistanceNotSmoothed ==
    Computed =>
        LET g   == stats_call.g
            out == stats_call.result.bluetoothStats
        IN  /\ g.hasWheel
                 => out.distance
                      = RSub(KmOfWheel(g.currentSample.wheel), g.startDistance)
            /\ g.bluetoothStats = None
                 => /\ out.cadence = InstantCadence(g)
                    /\ out.speed = InstantSpeed(g)

\* a snapshot after an earlier one with another distance and another speed
C17_Witness ==
    /\ Computed
    /\ stats_call.g.hasWheel
    /\ stats_call.g.bluetoothStats # None
    /\ stats_call.g.bluetoothStats.distance # Zero
    /\ stats_call.result.bluetoothStats.distance = KmOfWheel(20)
    /\ stats_call.result.bluetoothStats.distance
         # stats_call.g.bluetoothStats.distance
    /\ stats_call.result.bluetoothStats.speed # InstantSpeed(stats_call.g)

(* ----------------------------- coroutines ----------------------------- *)

\* the statements of a parse_buffer call
InParseBuffer == {"parse_buffer", "shift", "unpack", "calculate_stats"}

\* C18: the engine state has one writer: it changes only in statements of
\* parse_buffer run by the handler task; the main coroutine, while connected,
\* only goes to sleep; and from its first statement to its return a
\* parse_buffer call is never suspended, so neither main nor the event loop
\* ever runs between the shift of previousSample and the update of
\* bluetoothStats
C18_SingleWriter ==
    /\ [](handler_pc \in InParseBuffer => running = "handler")
    /\ [][/\ engine' # engine
             => running = "handler" /\ handler_pc \in InParseBuffer
          /\ (running = "main" /\ session = "connected")
             => /\ main_pc' = "sleep"
                /\ running' = "loop"
                /\ UNCHANGED <<engine, data, sensor_data, screen>>]_vars

\* main runs between two handler iterations, after a snapshot was computed
C18_Witness ==
    /\ running = "main"
    /\ session = "connected"
    /\ handler_pc = "notified"
    /\ frames = 2
    /\ previousSample # None
    /\ bluetoothStats # None

(* --------------------------- polled read mode ------------------------- *)

\* C19: in main.py's read loop the first read whose parse_buffer returns
\* stats raises in the unpacking and ends the session through the generic
\* handler, so no read follows a snapshot and at most one snapshot is ever
\* produced; SpinMain.py's read loop goes to sleep after a snapshot and reads
\* on while connected
C19_ReadLoopEndsAtFirstSnapshot ==
    /\ [](program = "main.py" /\ sensor_data # None
            => /\ main_pc = "except"
               /\ session = "closed"
               /\ running = "done")
    /\ [][/\ (program = "main.py" /\ sensor_data' # None)
             => bluetoothStats = None
          /\ (program = "main.py" /\ sensor_data # None)
             => UNCHANGED <<engine, sensor_data, frames>>
          /\ (program = "SpinMain.py" /\ main_pc = "read" /\ frames' # frames)
             => main_pc' = "sleep" /\ session' = "connected"]_vars

\* main.py's session ended by its first snapshot, taken with the third read
C19_Witness ==
    /\ program = "main.py"
    /\ frames = 3
    /\ sensor_data # None
    /\ sensor_data = bluetoothStats
    /\ main_pc = "except"
    /\ session = "closed"

\* SpinMain.py asleep after a second, smoothed snapshot
C19_WitnessSpinMain ==
    /\ program = "SpinMain.py"
    /\ frames = 3
    /\ main_pc = "sleep"
    /\ sensor_data # None
    /\ sensor_data.cadence = Rat(184320, 5110)

====
